---- MODULE Spec2Model ----
(***************************************************************************)
(* A model of gitlab-artifact-cleanup: Gitlab.delete_old_artifacts         *)
(* (artifact_cleanup.py), human_size (util.py) and main() (cli.py).        *)
(*                                                                         *)
(* The GitLab server is the environment.  Every remote call (project get,  *)
(* branch/tag/job listing, job.erase, job.delete_artifacts) is one step    *)
(* whose result is chosen nondeterministically among the results the       *)
(* python-gitlab client can deliver: a value, or an exception.             *)
(* Timestamps are instants in whole seconds; job.created_at stands for the *)
(* instant datetime.fromisoformat(job.created_at) denotes.                 *)
(***************************************************************************)
EXTENDS Integers, Sequences, FiniteSets, TLC

VARIABLES
    pc,                                     \* position in delete_old_artifacts
    dry_run,                                \* Gitlab._dry_run
    repository_paths_with_namespace,        \* parameter (a str or a list of str)
    days_to_keep,                           \* parameter
    keep_artifacts_of_latest_branch_commit, \* parameter
    keep_artifacts_of_tags,                 \* parameter
    delete_logs,                            \* parameter
    now,                                    \* local: datetime.now(timezone.utc)
    artifacts_size_total,                   \* local
    cleaned_job_count_total,                \* local
    repository_count,                       \* local
    repo_index,                             \* position of the for loop over the paths
    project,                                \* local: path_with_namespace of the project
    branches_to_hash,                       \* local
    tags_to_hash,                           \* local
    artifacts_size_project,                 \* local
    cleaned_job_count_project,              \* local
    jobs_listed,                            \* jobs the listings have yielded so far
    job,                                    \* loop variable of the job loop
    log,                                    \* records handed to logger.info
    calls,                                  \* remote calls made, in order
    raised,                                 \* exception leaving delete_old_artifacts
    main_pc,                                \* position in main(); "api" without main()
    cli,                                    \* command line, config file, stdin
    args,                                   \* main's local args
    errors,                                 \* messages handed to logger.error
    uncaught,                               \* exception leaving main()
    exit_code                               \* the process exit code

vars == << pc, dry_run, repository_paths_with_namespace, days_to_keep,
           keep_artifacts_of_latest_branch_commit, keep_artifacts_of_tags,
           delete_logs, now, artifacts_size_total, cleaned_job_count_total,
           repository_count, repo_index, project, branches_to_hash, tags_to_hash,
           artifacts_size_project, cleaned_job_count_project, jobs_listed, job,
           log, calls, raised, main_pc, cli, args, errors, uncaught, exit_code >>

main_vars == << main_pc, cli, args, errors, uncaught, exit_code >>

----------------------------------------------------------------------------
(* Bounds of the model *)

\* longest list of repository paths handed to delete_old_artifacts
MaxRepos == 2
\* most jobs the job listings of one run yield
MaxJobs == 2
\* most artifact records of one job
MaxArtifacts == 2

(* Program constants *)

\* timedelta(days=1) in seconds
SecondsPerDay == 86400
\* the unit step of human_size
UnitStep == 1024

----------------------------------------------------------------------------
(* Values *)

\* Python's None where a str is expected
None == "<None>"
\* Python's None for an artifact's size
NoSize == 0 - 1
\* the empty mapping
EmptyIndex == [n \in {} |-> None]

RECURSIVE Pow(_, _)
Pow(b, e) == IF e = 0 THEN 1 ELSE b * Pow(b, e - 1)

\* all sequences over S of length at most n
SeqsUpTo(S, n) == UNION { [1..k -> S] : k \in 0..n }

----------------------------------------------------------------------------
(* util.human_size *)

units == << "B", "KiB", "MiB", "GiB", "TiB" >>

\* f"{x:.2f}" of the exact quotient a / b: hundredths, rounded half to even
RoundHundredths(a, b) ==
    LET q == (a * 100) \div b
        r == (a * 100) % b
    IN  IF 2 * r < b THEN q
        ELSE IF 2 * r > b THEN q + 1
        ELSE IF q % 2 = 0 THEN q ELSE q + 1

\* number of divisions by 1024 before human_size returns
UnitIndex(size_in_bytes) ==
    IF \E k \in 0..3 : size_in_bytes < Pow(UnitStep, k + 1)
    THEN CHOOSE k \in 0..3 :
            /\ size_in_bytes < Pow(UnitStep, k + 1)
            /\ \A m \in 0..(k - 1) : size_in_bytes >= Pow(UnitStep, m + 1)
    ELSE 4

\* the text "<whole>.<hundredths> <unit>" as << whole, hundredths, unit >>
human_size(size_in_bytes) ==
    LET k == UnitIndex(size_in_bytes)
        h == RoundHundredths(size_in_bytes, Pow(UnitStep, k))
    IN  << h \div 100, h % 100, units[k + 1] >>

----------------------------------------------------------------------------
(* The inputs: the arguments of the call and what the server holds *)

RepoNames == << "group/a", "group/b", "group/c", "group/d" >>

\* repository_paths_with_namespace: one str, or a list of at most MaxRepos paths
PathInputs ==
    { [str |-> RepoNames[1]] } \cup
    { [list |-> SubSeq(RepoNames, 1, k)] :
         k \in 0..(IF MaxRepos < 4 THEN MaxRepos ELSE 4) }

DaysToKeepValues == {0, 1}

\* the instant datetime.now(timezone.utc) returns
Clock == 2 * SecondsPerDay

\* ages of the jobs on the server when the run starts, in seconds
Ages == {0, SecondsPerDay, SecondsPerDay + 1}
CreatedAtValues == { Clock - a : a \in Ages }

Refs == {"main", "v1.0"}
BranchNames == {"main"}
TagNames == {"main"}
HeadCommits == {"c1"}
CommitIds == {"c1", "c2"}
\* job.commit is None
NoCommit == None

FileTypes == {"archive", "trace"}
SizeValues == {600}
ArtifactRecords == [file_type : FileTypes, size : SizeValues \cup {NoSize}]
ArtifactLists == SeqsUpTo(ArtifactRecords, MaxArtifacts)

\* the mappings a branch (tag) listing can produce
BranchIndexes == UNION { [S -> HeadCommits] : S \in SUBSET BranchNames }
TagIndexes == UNION { [S -> HeadCommits] : S \in SUBSET TagNames }

\* the jobs a job listing can yield, by id
JobsWithId(id) ==
    [id : {id}, ref : Refs, commit : CommitIds \cup {NoCommit},
     artifacts : ArtifactLists, created_at : CreatedAtValues]

NoJob == [id |-> 0, ref |-> None, commit |-> NoCommit, artifacts |-> << >>,
          created_at |-> 0]

\* exceptions of the python-gitlab client, by remote call
GetFailures == {"GitlabGetError", "GitlabAuthenticationError"}
ListFailures == {"GitlabListError", "GitlabAuthenticationError"}
\* GitlabOperationError stands for the error class of a failed erase or delete
DeleteFailures == {"GitlabOperationError", "GitlabAuthenticationError"}

NoException == [type |-> "none", path |-> None, cause |-> None]
Exception(type, path, cause) == [type |-> type, path |-> path, cause |-> cause]

Call(op, repo, jobid, result) ==
    [op |-> op, repo |-> repo, job |-> jobid, result |-> result]

NoText == << 0, 0, "" >>
NoLink == << "", None, None >>
\* a record handed to logger.info: bytes is the integer human_size renders as size
Event(kind, proj, jobid, what, bytes, size, link, count) ==
    [kind |-> kind, project |-> proj, job |-> jobid, what |-> what,
     bytes |-> bytes, size |-> size, link |-> link, count |-> count]

----------------------------------------------------------------------------
(* The body of the job loop *)

\* dict.get: the value, or None
Get(mapping, key) == IF key \in DOMAIN mapping THEN mapping[key] ELSE None

\* LinkedRef with the commit left out of the comparison
LinkedRef_ByRefOnly(j, mapping) ==
    IF j.ref \in DOMAIN mapping THEN j.ref ELSE None

\* job_branch and job_tag: job.ref if the job's commit is the one the mapping
\* gives for job.ref, else None
LinkedRef(j, mapping) ==
    IF j.commit # NoCommit /\ j.commit = Get(mapping, j.ref) THEN j.ref ELSE None

HasArchive(j) ==
    \E k \in 1..Len(j.artifacts) : j.artifacts[k].file_type = "archive"

\* SkipJob with either flag protecting either link
SkipJob_EitherFlag(j, job_branch, job_tag) ==
    \/ j.artifacts = << >>
    \/ (~delete_logs /\ ~HasArchive(j))
    \/ ( /\ (keep_artifacts_of_latest_branch_commit \/ keep_artifacts_of_tags)
         /\ (job_branch # None \/ job_tag # None) )
    \/ (now - j.created_at <= days_to_keep * SecondsPerDay)

\* SkipJob with `<` for `<=` in the age test
SkipJob_StrictAge(j, job_branch, job_tag) ==
    \/ j.artifacts = << >>
    \/ (~delete_logs /\ ~HasArchive(j))
    \/ (keep_artifacts_of_latest_branch_commit /\ job_branch # None)
    \/ (keep_artifacts_of_tags /\ job_tag # None)
    \/ (now - j.created_at < days_to_keep * SecondsPerDay)

\* SkipJob without the test for an empty artifact list
SkipJob_NoEmptyCheck(j, job_branch, job_tag) ==
    \/ (~delete_logs /\ ~HasArchive(j))
    \/ (keep_artifacts_of_latest_branch_commit /\ job_branch # None)
    \/ (keep_artifacts_of_tags /\ job_tag # None)
    \/ (now - j.created_at <= days_to_keep * SecondsPerDay)

\* the condition of the `continue`
SkipJob(j, job_branch, job_tag) ==
    \/ j.artifacts = << >>
    \/ (~delete_logs /\ ~HasArchive(j))
    \/ (keep_artifacts_of_latest_branch_commit /\ job_branch # None)
    \/ (keep_artifacts_of_tags /\ job_tag # None)
    \/ (now - j.created_at <= days_to_keep * SecondsPerDay)

\* SumSizes without the filter on the file type
RECURSIVE SumSizes_AllRecords(_, _)
SumSizes_AllRecords(artifacts, logs) ==
    IF artifacts = << >> THEN 0
    ELSE LET a == Head(artifacts)
         IN  (IF a.size # NoSize THEN a.size ELSE 0)
             + SumSizes_AllRecords(Tail(artifacts), logs)

RECURSIVE SumSizes(_, _)
SumSizes(artifacts, logs) ==
    IF artifacts = << >> THEN 0
    ELSE LET a == Head(artifacts)
         IN  (IF logs \/ a.file_type = "archive"
              THEN (IF a.size # NoSize THEN a.size ELSE 0)
              ELSE 0) + SumSizes(Tail(artifacts), logs)

\* artifacts_size
ArtifactsSize(j) == SumSizes(j.artifacts, delete_logs)

\* the link annotation job_description appends
LinkText(job_branch, job_tag) ==
    IF job_branch # None /\ job_tag # None
    THEN << "linked to branch and tag", job_branch, job_tag >>
    ELSE IF job_branch # None THEN << "linked to branch", job_branch, None >>
    ELSE IF job_tag # None THEN << "linked to tag", None, job_tag >>
    ELSE << "dangling", None, None >>

job_description(j, artifacts_size, job_branch, job_tag) ==
    [job |-> j.id, size |-> human_size(artifacts_size),
     link |-> LinkText(job_branch, job_tag)]

----------------------------------------------------------------------------
(* delete_old_artifacts, one step per remote call *)

\* the two shapes of repository_paths_with_namespace
Str(s) == [str |-> s]
List(l) == [list |-> l]
IsStr(x) == DOMAIN x = {"str"}

Raise(e) ==
    /\ raised' = e
    /\ pc' = "raised"

\* lines 54-60: the locals before the loop over the repositories
Begin ==
    /\ pc = "call"
    /\ now' = Clock
    /\ repository_paths_with_namespace' =
          IF IsStr(repository_paths_with_namespace)
          THEN List(<< repository_paths_with_namespace.str >>)
          ELSE repository_paths_with_namespace
    /\ artifacts_size_total' = 0
    /\ cleaned_job_count_total' = 0
    /\ repository_count' = 0
    /\ repo_index' = 1
    /\ pc' = "for_repository"
    /\ UNCHANGED << dry_run, days_to_keep, keep_artifacts_of_latest_branch_commit,
                    keep_artifacts_of_tags, delete_logs, project, branches_to_hash,
                    tags_to_hash, artifacts_size_project, cleaned_job_count_project,
                    jobs_listed, job, log, calls, raised >>
    /\ UNCHANGED main_vars

\* GetFailed with the exception caught and the run continued
GetFailed_Swallowed(repository_path, result) ==
    /\ pc' = "list_branches"
    /\ UNCHANGED raised

\* lines 65-66: GitlabGetError becomes ProjectGetError; any other exception of
\* projects.get is not caught
GetFailed(repository_path, result) ==
    IF result = "GitlabGetError"
    THEN Raise(Exception("ProjectGetError", repository_path, result))
    ELSE Raise(Exception(result, None, None))

\* lines 62-67: the next repository path, self._gitlab.projects.get
GetProject ==
    /\ pc = "for_repository"
    /\ repo_index <= Len(repository_paths_with_namespace.list)
    /\ LET repository_path == repository_paths_with_namespace.list[repo_index]
       IN  \E result \in {"ok"} \cup GetFailures :
             /\ calls' = Append(calls, Call("projects.get", repo_index, 0, result))
             /\ IF result = "ok"
                THEN /\ project' = repository_path
                     /\ log' = Append(log, Event("scanning", repository_path, 0, "",
                                                 0, NoText, NoLink, 0))
                     /\ pc' = "list_branches"
                     /\ UNCHANGED raised
                ELSE /\ GetFailed(repository_path, result)
                     /\ UNCHANGED << project, log >>
    /\ UNCHANGED << dry_run, repository_paths_with_namespace, days_to_keep,
                    keep_artifacts_of_latest_branch_commit, keep_artifacts_of_tags,
                    delete_logs, now, artifacts_size_total, cleaned_job_count_total,
                    repository_count, repo_index, branches_to_hash, tags_to_hash,
                    artifacts_size_project, cleaned_job_count_project, jobs_listed,
                    job >>
    /\ UNCHANGED main_vars

\* line 68: project.branches.list
ListBranches ==
    /\ pc = "list_branches"
    /\ \/ \E mapping \in BranchIndexes :
            /\ branches_to_hash' = mapping
            /\ calls' = Append(calls, Call("branches.list", repo_index, 0, "ok"))
            /\ pc' = "list_tags"
            /\ UNCHANGED raised
       \/ \E result \in ListFailures :
            /\ calls' = Append(calls, Call("branches.list", repo_index, 0, result))
            /\ Raise(Exception(result, None, None))
            /\ UNCHANGED branches_to_hash
    /\ UNCHANGED << dry_run, repository_paths_with_namespace, days_to_keep,
                    keep_artifacts_of_latest_branch_commit, keep_artifacts_of_tags,
                    delete_logs, now, artifacts_size_total, cleaned_job_count_total,
                    repository_count, repo_index, project, tags_to_hash,
                    artifacts_size_project, cleaned_job_count_project, jobs_listed,
                    job, log >>
    /\ UNCHANGED main_vars

\* lines 69-72: project.tags.list, then the per-project counters
ListTags ==
    /\ pc = "list_tags"
    /\ \/ \E mapping \in TagIndexes :
            /\ tags_to_hash' = mapping
            /\ calls' = Append(calls, Call("tags.list", repo_index, 0, "ok"))
            /\ artifacts_size_project' = 0
            /\ cleaned_job_count_project' = 0
            /\ pc' = "for_job"
            /\ UNCHANGED raised
       \/ \E result \in ListFailures :
            /\ calls' = Append(calls, Call("tags.list", repo_index, 0, result))
            /\ Raise(Exception(result, None, None))
            /\ UNCHANGED << tags_to_hash, artifacts_size_project,
                            cleaned_job_count_project >>
    /\ UNCHANGED << dry_run, repository_paths_with_namespace, days_to_keep,
                    keep_artifacts_of_latest_branch_commit, keep_artifacts_of_tags,
                    delete_logs, now, artifacts_size_total, cleaned_job_count_total,
                    repository_count, repo_index, project, branches_to_hash,
                    jobs_listed, job, log >>
    /\ UNCHANGED main_vars

\* the id of the next job the listing yields (ids are unique on the server)
NextJobId == jobs_listed + 1

\* line 73: project.jobs.list(iterator=True) yields its next job
NextJob ==
    /\ pc = "for_job"
    /\ \/ /\ jobs_listed < MaxJobs
          /\ \E j \in JobsWithId(NextJobId) :
               /\ job' = j
               /\ jobs_listed' = jobs_listed + 1
               /\ calls' = Append(calls, Call("jobs.list", repo_index, j.id, "ok"))
               /\ pc' = "job_body"
               /\ UNCHANGED raised
       \/ \E result \in ListFailures :
            /\ calls' = Append(calls, Call("jobs.list", repo_index, 0, result))
            /\ Raise(Exception(result, None, None))
            /\ UNCHANGED << job, jobs_listed >>
    /\ UNCHANGED << dry_run, repository_paths_with_namespace, days_to_keep,
                    keep_artifacts_of_latest_branch_commit, keep_artifacts_of_tags,
                    delete_logs, now, artifacts_size_total, cleaned_job_count_total,
                    repository_count, repo_index, project, branches_to_hash,
                    tags_to_hash, artifacts_size_project, cleaned_job_count_project,
                    log >>
    /\ UNCHANGED main_vars

\* DeleteOp with job.erase() whatever delete_logs is
DeleteOp_AlwaysErase == "erase"

\* the remote call of lines 121 and 133
DeleteOp == IF delete_logs THEN "erase" ELSE "delete_artifacts"

\* ContactsServer with the dry-run test left out
ContactsServer_Always == TRUE

\* lines 120 and 132: `if not self._dry_run`
ContactsServer == ~dry_run

\* lines 122-144 (127-130, 139-142 in a dry run): the log record and the counters
Counted(kind, description, artifacts_size) ==
    /\ log' = Append(log, Event(kind, project, description.job,
                                IF delete_logs THEN "artifacts and log" ELSE "artifacts",
                                artifacts_size, description.size, description.link, 0))
    /\ cleaned_job_count_project' = cleaned_job_count_project + 1
    /\ artifacts_size_project' = artifacts_size_project + artifacts_size
    /\ pc' = "for_job"
    /\ UNCHANGED raised

\* DeleteFailed with the exception caught and the loop continued
DeleteFailed_Swallowed(result) ==
    /\ pc' = "for_job"
    /\ UNCHANGED << raised, log, cleaned_job_count_project, artifacts_size_project >>

\* lines 121 and 133: the exception of job.erase() or job.delete_artifacts()
\* is not caught
DeleteFailed(result) ==
    /\ Raise(Exception(result, None, None))
    /\ UNCHANGED << log, cleaned_job_count_project, artifacts_size_project >>

\* lines 74-144: the body of the job loop for the job just listed
ProcessJob ==
    /\ pc = "job_body"
    /\ LET job_branch == LinkedRef(job, branches_to_hash)
           job_tag == LinkedRef(job, tags_to_hash)
           artifacts_size == ArtifactsSize(job)
           description == job_description(job, artifacts_size, job_branch, job_tag)
       IN  IF SkipJob(job, job_branch, job_tag)
           THEN /\ pc' = "for_job"
                /\ UNCHANGED << log, calls, raised, cleaned_job_count_project,
                                artifacts_size_project >>
           ELSE IF ContactsServer
           THEN \E result \in {"ok"} \cup DeleteFailures :
                  /\ calls' = Append(calls, Call(DeleteOp, repo_index, job.id, result))
                  /\ IF result = "ok"
                     THEN Counted("deleted", description, artifacts_size)
                     ELSE DeleteFailed(result)
           ELSE /\ Counted("would_delete", description, artifacts_size)
                /\ UNCHANGED calls
    \* job is not read again before the listing binds it to the next job
    /\ job' = NoJob
    /\ UNCHANGED << dry_run, repository_paths_with_namespace, days_to_keep,
                    keep_artifacts_of_latest_branch_commit, keep_artifacts_of_tags,
                    delete_logs, now, artifacts_size_total, cleaned_job_count_total,
                    repository_count, repo_index, project, branches_to_hash,
                    tags_to_hash, jobs_listed >>
    /\ UNCHANGED main_vars

\* lines 145-158: the job listing is exhausted; totals and the project's summary
EndOfProject ==
    /\ pc = "for_job"
    /\ calls' = Append(calls, Call("jobs.list", repo_index, 0, "end"))
    /\ cleaned_job_count_total' = cleaned_job_count_total + cleaned_job_count_project
    /\ artifacts_size_total' = artifacts_size_total + artifacts_size_project
    /\ repository_count' = repository_count + 1
    /\ log' = Append(log,
          IF cleaned_job_count_project > 0
          THEN Event("project_found", project, 0, "", artifacts_size_project,
                     human_size(artifacts_size_project), NoLink,
                     cleaned_job_count_project)
          ELSE Event("project_none", project, 0, "", 0, NoText, NoLink, 0))
    /\ repo_index' = repo_index + 1
    /\ pc' = "for_repository"
    /\ UNCHANGED << dry_run, repository_paths_with_namespace, days_to_keep,
                    keep_artifacts_of_latest_branch_commit, keep_artifacts_of_tags,
                    delete_logs, now, project, branches_to_hash, tags_to_hash,
                    artifacts_size_project, cleaned_job_count_project, jobs_listed,
                    job, raised >>
    /\ UNCHANGED main_vars

\* SeveralRepositories with `>=` for `>`
SeveralRepositories_AtLeastOne == repository_count >= 1

\* line 160: `if repository_count > 1`
SeveralRepositories == repository_count > 1

\* lines 160-168: after the loop over the repositories
Finish ==
    /\ pc = "for_repository"
    /\ repo_index > Len(repository_paths_with_namespace.list)
    /\ log' = IF SeveralRepositories
              THEN Append(log,
                     IF cleaned_job_count_total > 0
                     THEN Event("total_found", None, 0, "", artifacts_size_total,
                                human_size(artifacts_size_total), NoLink,
                                cleaned_job_count_total)
                     ELSE Event("total_none", None, 0, "", 0, NoText, NoLink, 0))
              ELSE log
    /\ pc' = "done"
    /\ UNCHANGED << dry_run, repository_paths_with_namespace, days_to_keep,
                    keep_artifacts_of_latest_branch_commit, keep_artifacts_of_tags,
                    delete_logs, now, artifacts_size_total, cleaned_job_count_total,
                    repository_count, repo_index, project, branches_to_hash,
                    tags_to_hash, artifacts_size_project, cleaned_job_count_project,
                    jobs_listed, job, calls, raised >>
    /\ UNCHANGED main_vars

----------------------------------------------------------------------------
(* cli.main() *)

\* config.Verbosity
Verbosity == {"QUIET", "ERROR", "WARN", "VERBOSE", "DEBUG"}
\* config.KeepArtifacts
KeepArtifacts == {"NONE", "BRANCH_ARTIFACTS", "TAG_ARTIFACTS", "BRANCH_AND_TAG_ARTIFACTS"}

\* str.upper() and str.lower() on the names of the two enums
EnumNames ==
    << <<"quiet", "QUIET">>, <<"error", "ERROR">>, <<"warn", "WARN">>,
       <<"verbose", "VERBOSE">>, <<"debug", "DEBUG">>, <<"none", "NONE">>,
       <<"branch_artifacts", "BRANCH_ARTIFACTS">>,
       <<"tag_artifacts", "TAG_ARTIFACTS">>,
       <<"branch_and_tag_artifacts", "BRANCH_AND_TAG_ARTIFACTS">> >>
upper(name) == EnumNames[CHOOSE k \in DOMAIN EnumNames : EnumNames[k][1] = name][2]
lower(name) == EnumNames[CHOOSE k \in DOMAIN EnumNames : EnumNames[k][2] = name][1]

\* config.VERBOSITY_CHOICES and config.KEEP_ARTIFACTS_CHOICES
VERBOSITY_CHOICES == { lower(v) : v \in Verbosity }
KEEP_ARTIFACTS_CHOICES == { lower(k) : k \in KeepArtifacts }

\* values of the config file that are no member of the enums
UnknownConfigValues == {"loud"}

\* the process has not exited
NotExited == 0 - 1
\* the first exit code main gives to an expected exception
FirstErrorExitCode == 3

\* what the command line, the config file and stdin hold:
\*   argv_ok            argparse accepts the command line
\*   verbosity_flag     the flag of the verbosity group that is given, or "none"
\*   config_verbosity   the verbosity entry of the config file
\*   config_always_keep the always_keep entry of the config file
\*   always_keep_option the value of --always-keep, "" when the option is not given
\*   repository_paths   the positional arguments, else config.repository_paths
\*   token              config.gitlab_access_token, else what is typed; "" for none
CliInputs ==
    [argv_ok : BOOLEAN, print_version : BOOLEAN, write_default_config : BOOLEAN,
     verbosity_flag : {"none", "quiet", "error", "warn", "verbose", "debug"},
     config_verbosity : VERBOSITY_CHOICES \cup UnknownConfigValues,
     config_always_keep : KEEP_ARTIFACTS_CHOICES \cup UnknownConfigValues,
     repository_paths : { SubSeq(RepoNames, 1, k) :
                             k \in 0..(IF MaxRepos < 4 THEN MaxRepos ELSE 4) },
     days_to_keep : {0 - 1, 0},
     always_keep_option : KEEP_ARTIFACTS_CHOICES \cup {""},
     delete_logs : BOOLEAN, dry_run : BOOLEAN,
     token : {"", "secret"}]

NoCli ==
    [argv_ok |-> TRUE, print_version |-> FALSE, write_default_config |-> FALSE,
     verbosity_flag |-> "none", config_verbosity |-> "verbose",
     config_always_keep |-> "none", always_keep_option |-> "",
     repository_paths |-> << >>, days_to_keep |-> 0,
     delete_logs |-> FALSE, dry_run |-> FALSE, token |-> ""]

\* args is unbound until parse_arguments returns
NoArgs ==
    [bound |-> FALSE, print_version |-> FALSE, write_default_config |-> FALSE,
     verbosity_level |-> None, repository_paths |-> << >>, days_to_keep |-> 0,
     always_keep |-> "NONE", delete_logs |-> FALSE, dry_run |-> FALSE]

\* Config.verbosity and Config.always_keep: the exception the property raises,
\* "none" when it returns
config_verbosity_error(c) ==
    IF c.config_verbosity \notin VERBOSITY_CHOICES
    THEN "UnknownVerbosityLevelError" ELSE "none"
config_always_keep_error(c) ==
    IF c.config_always_keep \notin KEEP_ARTIFACTS_CHOICES
    THEN "UnknownAlwaysKeepError" ELSE "none"

\* get_argumentparser: the defaults and help texts read config.always_keep
\* (line 71) and then config.verbosity (line 125)
get_argumentparser(c) ==
    IF config_always_keep_error(c) # "none" THEN config_always_keep_error(c)
    ELSE config_verbosity_error(c)

\* parse_arguments, lines 162-174
VerbosityLevel(c) ==
    IF c.verbosity_flag = "quiet" THEN "QUIET"
    ELSE IF c.verbosity_flag = "error" THEN "ERROR"
    ELSE IF c.verbosity_flag = "warn" THEN "WARN"
    ELSE IF c.verbosity_flag = "verbose" THEN "VERBOSE"
    ELSE IF c.verbosity_flag = "debug" THEN "DEBUG"
    ELSE upper(c.config_verbosity)

\* parse_arguments: the exception it raises, "none" when it returns
ParseError(c) ==
    IF c.print_version THEN "none"
    ELSE IF c.write_default_config THEN "none"
    ELSE IF c.repository_paths = << >> THEN "ArgumentError"
    ELSE IF c.days_to_keep < 0 THEN "ArgumentError"
    ELSE IF c.token = "" THEN "ArgumentError"
    ELSE "none"

\* parse_arguments: the namespace it returns
ParsedArgs(c) ==
    [bound |-> TRUE, print_version |-> c.print_version,
     write_default_config |-> c.write_default_config,
     verbosity_level |-> IF c.print_version THEN None ELSE VerbosityLevel(c),
     repository_paths |-> c.repository_paths, days_to_keep |-> c.days_to_keep,
     always_keep |-> upper(IF c.always_keep_option = ""
                           THEN c.config_always_keep ELSE c.always_keep_option),
     delete_logs |-> c.delete_logs,
     dry_run |-> c.dry_run]

\* setup_stderr_logging: the exception it raises, "none" when it returns
setup_stderr_logging(verbosity_level) ==
    IF verbosity_level = "QUIET" THEN "none"
    ELSE IF verbosity_level = "WARN" THEN "none"
    ELSE IF verbosity_level = "VERBOSE" THEN "none"
    ELSE IF verbosity_level = "DEBUG" THEN "none"
    ELSE "NotImplementedError"

expected_exceptions ==
    << "ArgumentError", "GitlabAuthenticationError", "GitlabListError",
       "ProjectGetError" >>

IsExpected(type) == \E k \in 1..Len(expected_exceptions) : expected_exceptions[k] = type

\* ErrorExitCode with one code for every expected exception
ErrorExitCode_SameCode(type) == FirstErrorExitCode

\* lines 251-253: enumerate(expected_exceptions, start=3)
ErrorExitCode(type) ==
    FirstErrorExitCode - 1 +
    CHOOSE k \in 1..Len(expected_exceptions) : expected_exceptions[k] = type

\* line 249: `"args" in locals() and args.verbosity_level is Verbosity.DEBUG`
Reraises(a) == a.bound /\ a.verbosity_level = "DEBUG"

Exit(code) ==
    /\ exit_code' = code
    /\ main_pc' = "exited"

\* an exception leaves main(): the interpreter shows the traceback and exits with 1
Uncaught(e) ==
    /\ uncaught' = e
    /\ Exit(1)

\* lines 247-254, and what happens to an exception the except clause does not name
Except(e, a) ==
    IF IsExpected(e.type)
    THEN /\ errors' = Append(errors, e)
         /\ IF Reraises(a)
            THEN Uncaught(e)
            ELSE /\ Exit(ErrorExitCode(e.type))
                 /\ UNCHANGED uncaught
    ELSE /\ Uncaught(e)
         /\ UNCHANGED errors

cleanup_vars ==
    << pc, dry_run, repository_paths_with_namespace, days_to_keep,
       keep_artifacts_of_latest_branch_commit, keep_artifacts_of_tags,
       delete_logs, now, artifacts_size_total, cleaned_job_count_total,
       repository_count, repo_index, project, branches_to_hash, tags_to_hash,
       artifacts_size_project, cleaned_job_count_project, jobs_listed, job,
       log, calls, raised >>

\* line 236: args = parse_arguments().  argparse ends the process with status 2
\* when it rejects the command line.
ParseArguments ==
    /\ main_pc = "main"
    /\ IF get_argumentparser(cli) # "none"
       THEN /\ Except(Exception(get_argumentparser(cli), None, None), args)
            /\ UNCHANGED << cli, args >>
       ELSE IF ~cli.argv_ok
       THEN /\ Exit(2)
            /\ UNCHANGED << cli, args, errors, uncaught >>
       ELSE IF ParseError(cli) # "none"
       THEN /\ Except(Exception(ParseError(cli), None, None), args)
            /\ UNCHANGED << cli, args >>
       ELSE /\ args' = ParsedArgs(cli)
            /\ cli' = NoCli
            /\ main_pc' = "parsed"
            /\ UNCHANGED << errors, uncaught, exit_code >>
    /\ UNCHANGED cleanup_vars

\* handle_clean_artifacts, lines 214-225: the Gitlab object and the call
handle_clean_artifacts(a) ==
    /\ dry_run' = a.dry_run
    /\ repository_paths_with_namespace' = List(a.repository_paths)
    /\ days_to_keep' = a.days_to_keep
    /\ keep_artifacts_of_latest_branch_commit' =
          (a.always_keep \in {"BRANCH_AND_TAG_ARTIFACTS", "BRANCH_ARTIFACTS"})
    /\ keep_artifacts_of_tags' =
          (a.always_keep \in {"BRANCH_AND_TAG_ARTIFACTS", "TAG_ARTIFACTS"})
    /\ delete_logs' = a.delete_logs
    /\ pc' = "call"

\* lines 237-246: main() from the parsed arguments to the call of
\* delete_old_artifacts
Setup ==
    /\ main_pc = "parsed"
    /\ IF args.print_version
       THEN /\ Exit(0)
            /\ UNCHANGED << uncaught, errors, cleanup_vars >>
       ELSE IF setup_stderr_logging(args.verbosity_level) # "none"
       THEN /\ Except(Exception(setup_stderr_logging(args.verbosity_level),
                                None, None), args)
            /\ UNCHANGED cleanup_vars
       ELSE IF args.write_default_config
       THEN /\ Exit(0)
            /\ UNCHANGED << uncaught, errors, cleanup_vars >>
       ELSE /\ handle_clean_artifacts(args)
            /\ main_pc' = "clean"
            /\ UNCHANGED << uncaught, errors, exit_code, now, artifacts_size_total,
                            cleaned_job_count_total, repository_count, repo_index,
                            project, branches_to_hash, tags_to_hash,
                            artifacts_size_project, cleaned_job_count_project,
                            jobs_listed, job, log, calls, raised >>
    /\ UNCHANGED << cli, args >>

\* line 257: delete_old_artifacts has returned
Return ==
    /\ main_pc = "clean"
    /\ pc = "done"
    /\ Exit(0)
    /\ UNCHANGED << cli, args, errors, uncaught, cleanup_vars >>

\* lines 247-254: delete_old_artifacts has raised
Failed ==
    /\ main_pc = "clean"
    /\ pc = "raised"
    /\ Except(raised, args)
    /\ UNCHANGED << cli, args, cleanup_vars >>

----------------------------------------------------------------------------
(* The specifications *)

\* the locals of delete_old_artifacts before the call
Unbound ==
    /\ now = 0
    /\ artifacts_size_total = 0
    /\ cleaned_job_count_total = 0
    /\ repository_count = 0
    /\ repo_index = 0
    /\ project = None
    /\ branches_to_hash = EmptyIndex
    /\ tags_to_hash = EmptyIndex
    /\ artifacts_size_project = 0
    /\ cleaned_job_count_project = 0
    /\ jobs_listed = 0
    /\ job = NoJob
    /\ log = << >>
    /\ calls = << >>
    /\ raised = NoException

\* a call of Gitlab(url, token, dry_run).delete_old_artifacts(...) by a user of
\* the package
Init ==
    /\ pc = "call"
    /\ dry_run \in BOOLEAN
    /\ repository_paths_with_namespace \in PathInputs
    /\ days_to_keep \in DaysToKeepValues
    /\ keep_artifacts_of_latest_branch_commit \in BOOLEAN
    /\ keep_artifacts_of_tags \in BOOLEAN
    /\ delete_logs \in BOOLEAN
    /\ Unbound
    /\ main_pc = "api"
    /\ cli = NoCli
    /\ args = NoArgs
    /\ errors = << >>
    /\ uncaught = NoException
    /\ exit_code = NotExited

Next ==
    \/ Begin
    \/ GetProject
    \/ ListBranches
    \/ ListTags
    \/ NextJob
    \/ ProcessJob
    \/ EndOfProject
    \/ Finish

Spec == Init /\ [][Next]_vars

\* a run of the command
InitMain ==
    /\ main_pc = "main"
    /\ cli \in CliInputs
    /\ args = NoArgs
    /\ errors = << >>
    /\ uncaught = NoException
    /\ exit_code = NotExited
    /\ pc = "idle"
    /\ dry_run = FALSE
    /\ repository_paths_with_namespace = List(<< >>)
    /\ days_to_keep = 0
    /\ keep_artifacts_of_latest_branch_commit = FALSE
    /\ keep_artifacts_of_tags = FALSE
    /\ delete_logs = FALSE
    /\ Unbound

NextMain ==
    \/ ParseArguments
    \/ Setup
    \/ Return
    \/ Failed
    \/ Begin
    \/ GetProject
    \/ ListBranches
    \/ ListTags
    \/ NextJob
    \/ ProcessJob
    \/ EndOfProject
    \/ Finish

SpecMain == InitMain /\ [][NextMain]_vars

----------------------------------------------------------------------------
(* What the claims speak of *)

DeleteOps == {"erase", "delete_artifacts"}
JobEvents == {"deleted", "would_delete"}
ProjectSummaries == {"project_found", "project_none"}
TotalSummaries == {"total_found", "total_none"}

Last(seq) == seq[Len(seq)]

\* the job's ref names a branch of the index and its commit is that branch's head
IsBranchHead(j) ==
    /\ j.commit # NoCommit
    /\ j.ref \in DOMAIN branches_to_hash
    /\ branches_to_hash[j.ref] = j.commit

\* the job's ref names a tag of the index and its commit is that tag's commit
IsTagged(j) ==
    /\ j.commit # NoCommit
    /\ j.ref \in DOMAIN tags_to_hash
    /\ tags_to_hash[j.ref] = j.commit

AgeOf(j) == now - j.created_at
Threshold == days_to_keep * SecondsPerDay

ArchiveRecords(j) == { k \in DOMAIN j.artifacts : j.artifacts[k].file_type = "archive" }

\* a job an enabled protection flag protects through the link of its own kind
ProtectedByOwnFlag(j) ==
    \/ (keep_artifacts_of_latest_branch_commit /\ IsBranchHead(j))
    \/ (keep_artifacts_of_tags /\ IsTagged(j))

\* something of the job is in the scope of the deletion
HasRelevantArtifacts(j) ==
    /\ j.artifacts # << >>
    /\ (delete_logs \/ ArchiveRecords(j) # {})

\* the sizes of the records of j at the positions S, None counted as 0
RECURSIVE SizesAt(_, _)
SizesAt(j, S) ==
    IF S = {} THEN 0
    ELSE LET k == CHOOSE n \in S : TRUE
         IN  (IF j.artifacts[k].size = NoSize THEN 0 ELSE j.artifacts[k].size)
             + SizesAt(j, S \ {k})

\* the reclaimable size as the specification words it
Reclaimable(j) ==
    SizesAt(j, IF delete_logs THEN DOMAIN j.artifacts ELSE ArchiveRecords(j))

\* a step of the job loop's body that leaves the job alone
StepKeeps ==
    /\ log' = log
    /\ calls' = calls
    /\ cleaned_job_count_project' = cleaned_job_count_project
    /\ artifacts_size_project' = artifacts_size_project
    /\ pc' = "for_job"

\* a step of the job loop's body that deletes the job (in a dry run: reports that
\* it would), with a link annotation among `links`
StepDeletes(links) ==
    IF dry_run
    THEN /\ calls' = calls
         /\ Len(log') = Len(log) + 1
         /\ Last(log').kind = "would_delete"
         /\ Last(log').job = job.id
         /\ Last(log').link[1] \in links
         /\ cleaned_job_count_project' = cleaned_job_count_project + 1
    ELSE /\ Len(calls') = Len(calls) + 1
         /\ Last(calls').op \in DeleteOps
         /\ Last(calls').job = job.id
         /\ Last(calls').result = "ok" =>
               /\ Len(log') = Len(log) + 1
               /\ Last(log').kind = "deleted"
               /\ Last(log').job = job.id
               /\ Last(log').link[1] \in links
               /\ cleaned_job_count_project' = cleaned_job_count_project + 1

AnyLink == {"linked to branch and tag", "linked to branch", "linked to tag", "dangling"}

\* positions of the log with a record of one of the kinds
EventsOf(kinds) == { n \in DOMAIN log : log[n].kind \in kinds }

----------------------------------------------------------------------------
(* C1 *)

\* C1: with dry_run true, no job.erase() or job.delete_artifacts() call is made
\* and nothing is logged as deleted, whatever the policy and the server hold; the
\* jobs that would be deleted are logged as such, one record per counted job.
C1_DryRunNeverDeletes ==
    dry_run =>
        /\ \A n \in DOMAIN calls : calls[n].op \notin DeleteOps
        /\ EventsOf({"deleted"}) = {}
        /\ pc \in {"for_job", "job_body"} =>
              Cardinality(EventsOf({"would_delete"})) =
                  cleaned_job_count_total + cleaned_job_count_project
        /\ pc \in {"for_repository", "list_branches", "list_tags", "done"} =>
              Cardinality(EventsOf({"would_delete"})) = cleaned_job_count_total

\* a dry run that completed and found a job it would delete
C1_Witness ==
    /\ dry_run
    /\ pc = "done"
    /\ EventsOf({"would_delete"}) # {}

----------------------------------------------------------------------------
(* C2 *)

\* C2: a job whose ref and commit are a branch and its head (a tag and its
\* commit) in the index of its repository is kept whatever its age when the
\* branch (tag) flag is set; a job whose ref and commit match no branch and no
\* tag of the index, or whose commit is None, is not protected: if it has an
\* archive artifact and is older than the threshold it is deleted, annotated
\* "dangling".
C2_ProtectedKeptDanglingDeleted ==
    [][pc = "job_body" =>
         /\ (keep_artifacts_of_latest_branch_commit /\ IsBranchHead(job)) => StepKeeps
         /\ (keep_artifacts_of_tags /\ IsTagged(job)) => StepKeeps
         /\ ( /\ ~IsBranchHead(job)
              /\ ~IsTagged(job)
              /\ ArchiveRecords(job) # {}
              /\ AgeOf(job) > Threshold ) => StepDeletes({"dangling"})
      ]_vars

\* an old job with an archive on a protected branch head is in the loop body,
\* after a dangling job of the run has been deleted
C2_Witness ==
    /\ pc = "job_body"
    /\ keep_artifacts_of_latest_branch_commit
    /\ IsBranchHead(job)
    /\ ArchiveRecords(job) # {}
    /\ AgeOf(job) > Threshold
    /\ \E n \in EventsOf(JobEvents) : log[n].link[1] = "dangling"

----------------------------------------------------------------------------
(* C3 *)

\* C3 as stated: a job linked to a branch or to a tag is kept whenever either
\* protection flag is set.
C3_EitherFlagProtectsEitherLink ==
    [][( /\ pc = "job_body"
         /\ (keep_artifacts_of_latest_branch_commit \/ keep_artifacts_of_tags)
         /\ (IsBranchHead(job) \/ IsTagged(job)) ) => StepKeeps
      ]_vars

\* C3 amended: a linked job is kept whenever the branch flag is set and it is
\* linked to a branch, or the tag flag is set and it is linked to a tag; a flag
\* does not protect a job that is linked only through the other kind of ref:
\* such a job, old and with something to delete, is deleted.
C3_FlagProtectsOwnLink ==
    [][pc = "job_body" =>
         /\ ProtectedByOwnFlag(job) => StepKeeps
         /\ ( /\ (IsBranchHead(job) \/ IsTagged(job))
              /\ ~ProtectedByOwnFlag(job)
              /\ HasRelevantArtifacts(job)
              /\ AgeOf(job) > Threshold ) =>
               StepDeletes({"linked to branch and tag", "linked to branch",
                            "linked to tag"})
      ]_vars

\* only the branch flag is set, and a job linked only to a tag has been deleted
C3_Witness ==
    /\ keep_artifacts_of_latest_branch_commit
    /\ ~keep_artifacts_of_tags
    /\ \E n \in EventsOf(JobEvents) : log[n].link[1] = "linked to tag"

----------------------------------------------------------------------------
(* C4 *)

\* C4: now is fixed once at the start of the run; a job whose age now - created_at
\* is at most days_to_keep days is never deleted (also with days_to_keep = 0 and
\* at exactly days_to_keep days), and a job one second older that no other
\* condition protects is deleted.
C4_AgeBoundary ==
    [][ /\ pc \notin {"idle", "call"} => now' = now
        /\ pc = "job_body" =>
             /\ AgeOf(job) <= Threshold => StepKeeps
             /\ ( /\ AgeOf(job) = Threshold + 1
                  /\ HasRelevantArtifacts(job)
                  /\ ~ProtectedByOwnFlag(job) ) => StepDeletes(AnyLink)
      ]_vars

\* a job exactly days_to_keep days old that nothing else protects is in the loop
\* body and the body keeps it
C4_Witness ==
    /\ pc = "job_body"
    /\ days_to_keep > 0
    /\ AgeOf(job) = Threshold
    /\ HasRelevantArtifacts(job)
    /\ ~ProtectedByOwnFlag(job)
    /\ ENABLED (ProcessJob /\ log' = log /\ calls' = calls)

----------------------------------------------------------------------------
(* C5 *)

\* C5: the size counted and logged for a deleted job is the sum of the sizes
\* (None as 0) of its archive records when delete_logs is false and of all its
\* records when delete_logs is true; a record that is no archive does not keep a
\* job with an archive record from being deleted.
C5_ReclaimableSize ==
    [][pc = "job_body" =>
         /\ cleaned_job_count_project' # cleaned_job_count_project =>
               /\ artifacts_size_project' =
                     artifacts_size_project + Reclaimable(job)
               /\ Last(log').job = job.id
               /\ Last(log').bytes = Reclaimable(job)
               /\ Last(log').size = human_size(Reclaimable(job))
         /\ ( /\ ArchiveRecords(job) # {}
              /\ ArchiveRecords(job) # DOMAIN job.artifacts
              /\ AgeOf(job) > Threshold
              /\ ~ProtectedByOwnFlag(job) ) => StepDeletes(AnyLink)
      ]_vars

\* logs are kept, and a job with a sized archive and a sized record of another
\* type has been listed and can be deleted
C5_Witness ==
    /\ pc = "job_body"
    /\ ~delete_logs
    /\ \E a \in ArchiveRecords(job) : job.artifacts[a].size # NoSize
    /\ \E k \in DOMAIN job.artifacts \ ArchiveRecords(job) :
          job.artifacts[k].size # NoSize
    /\ ENABLED (ProcessJob /\ cleaned_job_count_project' = cleaned_job_count_project + 1)

----------------------------------------------------------------------------
(* C6 *)

\* the repository paths after line 57
Paths == repository_paths_with_namespace.list

\* C6: when projects.get fails with a lookup error for the k-th path, the run
\* ends at once with ProjectGetError naming that path and the cause: the failed
\* call is the last remote call, no other call is made for the k-th or a later
\* path, only the k - 1 earlier repositories are scanned and summarised, and no
\* grand total is logged.
C6_LookupFailureAborts ==
    \A n \in DOMAIN calls :
        (calls[n].op = "projects.get" /\ calls[n].result = "GitlabGetError") =>
            LET k == calls[n].repo
            IN  /\ n = Len(calls)
                /\ pc = "raised"
                /\ raised = Exception("ProjectGetError", Paths[k], "GitlabGetError")
                /\ \A m \in DOMAIN calls : calls[m].repo >= k => m = n
                /\ Cardinality(EventsOf({"scanning"})) = k - 1
                /\ Cardinality(EventsOf(ProjectSummaries)) = k - 1
                /\ EventsOf(TotalSummaries) = {}

\* the lookup of a path failed, and a later path was to follow
C6_Witness ==
    /\ raised.type = "ProjectGetError"
    /\ calls # << >>
    /\ Last(calls).repo < Len(Paths)

----------------------------------------------------------------------------
(* C7 *)

\* the record that opens the project a summary at position p closes
SegmentStart(p) ==
    CHOOSE q \in EventsOf({"scanning"}) :
        /\ q < p
        /\ \A r \in EventsOf({"scanning"}) : r < p => r <= q

\* the deleted (would-be deleted) jobs of the project a summary at p closes
JobsOfSummary(p) == { n \in EventsOf(JobEvents) : SegmentStart(p) < n /\ n < p }

RECURSIVE BytesAt(_)
BytesAt(S) ==
    IF S = {} THEN 0
    ELSE LET n == CHOOSE m \in S : TRUE IN log[n].bytes + BytesAt(S \ {n})

RECURSIVE CountsAt(_)
CountsAt(S) ==
    IF S = {} THEN 0
    ELSE LET n == CHOOSE m \in S : TRUE IN log[n].count + CountsAt(S \ {n})

C7_Summaries ==
    pc = "done" =>
        /\ Cardinality(EventsOf(ProjectSummaries)) = Len(Paths)
        /\ \A p \in EventsOf(ProjectSummaries) :
              /\ log[p].project = log[SegmentStart(p)].project
              /\ log[p].kind = "project_none" <=> JobsOfSummary(p) = {}
              /\ log[p].kind = "project_found" =>
                    /\ log[p].count = Cardinality(JobsOfSummary(p))
                    /\ log[p].bytes = BytesAt(JobsOfSummary(p))
                    /\ log[p].size = human_size(BytesAt(JobsOfSummary(p)))
        /\ EventsOf(TotalSummaries) # {} <=> Cardinality(EventsOf(ProjectSummaries)) > 1
        /\ \A t \in EventsOf(TotalSummaries) :
              /\ t = Len(log)
              /\ log[t].kind = "total_none" <=> CountsAt(EventsOf(ProjectSummaries)) = 0
              /\ log[t].kind = "total_found" =>
                    /\ log[t].count = CountsAt(EventsOf(ProjectSummaries))
                    /\ log[t].bytes = BytesAt(EventsOf(ProjectSummaries))
                    /\ log[t].size = human_size(BytesAt(EventsOf(ProjectSummaries)))

\* C7: in a run that completes, every repository has one summary; it reports
\* the number of the repository's jobs that were deleted (would be, in a dry run)
\* and the sum of their sizes, and is the "found none" record exactly when that
\* number is 0; the grand total is logged exactly when more than one repository
\* was processed, last, with the sums of the repositories' counts and sizes; a
\* path given as one str is one repository.
C7_SummariesAddUp ==
    /\ []C7_Summaries
    /\ [][(pc = "call" /\ IsStr(repository_paths_with_namespace)) =>
             repository_paths_with_namespace' =
                List(<< repository_paths_with_namespace.str >>)]_vars

\* two repositories, one without a deletion and one with two, and the grand total
C7_Witness ==
    /\ pc = "done"
    /\ \E p \in EventsOf({"project_none"}) : TRUE
    /\ \E p \in EventsOf({"project_found"}) : log[p].count = 2 /\ log[p].bytes > 0
    /\ \E t \in EventsOf({"total_found"}) : log[t].count = 2

----------------------------------------------------------------------------
(* C9 *)

\* the deleted (would-be deleted) jobs logged since the current project's scan began
JobsOfCurrentProject ==
    { n \in EventsOf(JobEvents) : \A q \in EventsOf({"scanning"}) : q < n }

\* C9: when job.erase() or job.delete_artifacts() fails, the call is the only
\* deletion call for that job and the last remote call of the run, its exception
\* leaves delete_old_artifacts as it is, and the job is neither logged nor counted.
C9_DeletionFailureAborts ==
    \A n \in DOMAIN calls :
        (calls[n].op \in DeleteOps /\ calls[n].result # "ok") =>
            /\ n = Len(calls)
            /\ pc = "raised"
            /\ raised = Exception(calls[n].result, None, None)
            /\ \A m \in DOMAIN calls :
                  (calls[m].op \in DeleteOps /\ calls[m].job = calls[n].job) => m = n
            /\ \A e \in EventsOf(JobEvents) : log[e].job # calls[n].job
            /\ cleaned_job_count_project = Cardinality(JobsOfCurrentProject)
            /\ artifacts_size_project = BytesAt(JobsOfCurrentProject)
            /\ EventsOf(TotalSummaries) = {}

\* the deletion of a job failed after another job of the project was deleted, and
\* a later repository was to follow
C9_Witness ==
    /\ pc = "raised"
    /\ calls # << >>
    /\ Last(calls).op \in DeleteOps
    /\ Last(calls).result # "ok"
    /\ cleaned_job_count_project = 1
    /\ Last(calls).repo < Len(Paths)

----------------------------------------------------------------------------
(* C10 *)

\* C10: a job without artifact records is never deleted, and with delete_logs
\* false a job without an archive record is never deleted, whatever its age, its
\* links and the flags.
C10_NothingToDelete ==
    [][( /\ pc = "job_body"
         /\ \/ Len(job.artifacts) = 0
            \/ (~delete_logs /\ ArchiveRecords(job) = {}) ) => StepKeeps
      ]_vars

\* an old, unprotected job without artifacts is in the loop body of a run that
\* purges logs, and the body keeps it
C10_Witness ==
    /\ pc = "job_body"
    /\ Len(job.artifacts) = 0
    /\ delete_logs
    /\ ~ProtectedByOwnFlag(job)
    /\ AgeOf(job) > Threshold
    /\ ENABLED (ProcessJob /\ log' = log /\ calls' = calls)

----------------------------------------------------------------------------
(* C8 *)

Exited == main_pc = "exited"

\* the outcomes of a run of main()
Succeeded == cli.argv_ok /\ errors = << >> /\ uncaught = NoException
ArgumentRejected ==
    \/ (get_argumentparser(cli) = "none" /\ ~cli.argv_ok)
    \/ (errors # << >> /\ errors[1].type = "ArgumentError")
AuthenticationFailed == raised.type = "GitlabAuthenticationError"
ListingFailed == raised.type = "GitlabListError"
RepositoryNotFound == raised.type = "ProjectGetError"

\* C8 as stated: the exit code tells the outcomes apart at every verbosity:
\* 0 for success, 2 or 3 for an argument error, 4 for an authentication failure,
\* 5 for a listing failure, 6 for a repository that is not found.
C8_ExitCodesDistinct ==
    Exited =>
        /\ Succeeded => exit_code = 0
        /\ ArgumentRejected => exit_code \in {2, 3}
        /\ AuthenticationFailed => exit_code = 4
        /\ ListingFailed => exit_code = 5
        /\ RepositoryNotFound => exit_code = 6

\* C8 amended: the exit code tells the outcomes apart at every verbosity but
\* DEBUG, where an authentication failure, a listing failure and a repository
\* that is not found are re-raised and each ends the process with exit code 1.
C8_ExitCodesDistinctUnlessDebug ==
    Exited =>
        /\ Succeeded => exit_code = 0
        /\ ArgumentRejected => exit_code \in {2, 3}
        /\ (AuthenticationFailed \/ ListingFailed \/ RepositoryNotFound) =>
              IF args.verbosity_level = "DEBUG"
              THEN exit_code = 1 /\ uncaught = raised
              ELSE /\ uncaught = NoException
                   /\ AuthenticationFailed => exit_code = 4
                   /\ ListingFailed => exit_code = 5
                   /\ RepositoryNotFound => exit_code = 6

\* a run at verbosity WARN ended by a listing failure, with exit code 5
C8_Witness ==
    /\ Exited
    /\ args.verbosity_level = "WARN"
    /\ ListingFailed
    /\ exit_code = 5

----------------------------------------------------------------------------
(* C11 *)

\* the decision on a job as the specification words it: something of the job is
\* in scope, no enabled flag protects it, and it is older than the threshold
DecidedDelete(j) ==
    /\ HasRelevantArtifacts(j)
    /\ ~ProtectedByOwnFlag(j)
    /\ AgeOf(j) > Threshold

\* the remote call the policy asks for
ExpectedDeleteOp == IF delete_logs THEN "erase" ELSE "delete_artifacts"

\* positions of the call log with a deletion call for the job
DeletionCallsFor(id) ==
    { n \in DOMAIN calls : calls[n].op \in DeleteOps /\ calls[n].job = id }

\* the loop body of a run that is not a dry run: a job decided as Delete gets one
\* call, and is logged and counted only once the call has returned; a job decided
\* as Skip gets none
C11_Step ==
    (pc = "job_body" /\ ~dry_run) =>
        IF DecidedDelete(job)
        THEN /\ Len(calls') = Len(calls) + 1
             /\ SubSeq(calls', 1, Len(calls)) = calls
             /\ Last(calls').op = ExpectedDeleteOp
             /\ Last(calls').job = job.id
             /\ Last(calls').repo = repo_index
             /\ IF Last(calls').result = "ok"
                THEN /\ Len(log') = Len(log) + 1
                     /\ SubSeq(log', 1, Len(log)) = log
                     /\ Last(log').kind = "deleted"
                     /\ Last(log').job = job.id
                     /\ cleaned_job_count_project' = cleaned_job_count_project + 1
                ELSE /\ log' = log
                     /\ cleaned_job_count_project' = cleaned_job_count_project
        ELSE /\ calls' = calls
             /\ log' = log
             /\ cleaned_job_count_project' = cleaned_job_count_project

\* the call log of a run that is not a dry run: one deletion call per job at
\* most, of the kind delete_logs selects, and a "deleted" record for exactly the
\* jobs whose call returned
C11_Calls ==
    ~dry_run =>
        /\ \A n \in DOMAIN calls :
              calls[n].op \in DeleteOps =>
                 /\ calls[n].op = ExpectedDeleteOp
                 /\ DeletionCallsFor(calls[n].job) = {n}
                 /\ calls[n].result = "ok" <=>
                       (\E e \in EventsOf({"deleted"}) : log[e].job = calls[n].job)
        /\ \A e \in EventsOf({"deleted"}) :
              /\ Cardinality(DeletionCallsFor(log[e].job)) = 1
              /\ \A d \in EventsOf({"deleted"}) : log[d].job = log[e].job => d = e
        /\ EventsOf({"would_delete"}) = {}

\* C11: in a run that is not a dry run, every job decided as Delete receives
\* exactly one remote call, made before the job is logged as deleted and counted:
\* job.erase() if and only if delete_logs is true, job.delete_artifacts()
\* otherwise; job.erase() is never called when delete_logs is false, and no job
\* decided as Skip receives a deletion call.
C11_OneCallPerDeletedJob ==
    /\ []C11_Calls
    /\ [][C11_Step]_vars

\* a run that deletes artifacts only has skipped one job and deleted another with
\* job.delete_artifacts()
C11_Witness ==
    /\ ~dry_run
    /\ ~delete_logs
    /\ pc = "for_job"
    /\ \E n \in DOMAIN calls :
          /\ calls[n].op = "delete_artifacts"
          /\ calls[n].result = "ok"
          /\ \E e \in EventsOf({"deleted"}) : log[e].job = calls[n].job
    /\ \E n \in DOMAIN calls :
          /\ calls[n].op = "jobs.list"
          /\ calls[n].result = "ok"
          /\ DeletionCallsFor(calls[n].job) = {}

----------------------------------------------------------------------------
(* C12 *)

\* the errors C12 lists beyond those of C8
DeletionFailed ==
    /\ calls # << >>
    /\ Last(calls).op \in DeleteOps
    /\ Last(calls).result # "ok"
ConfigurationFailed == get_argumentparser(cli) # "none"

ListedError ==
    \/ ArgumentRejected
    \/ AuthenticationFailed
    \/ ListingFailed
    \/ RepositoryNotFound
    \/ DeletionFailed
    \/ ConfigurationFailed

\* the diagnostic of the run: the one record handed to logger.error, or the
\* message of argparse for a command line it rejects
OneDiagnostic ==
    \/ Len(errors) = 1
    \/ (errors = << >> /\ get_argumentparser(cli) = "none" /\ ~cli.argv_ok)

\* an exception left main(): the interpreter prints its traceback
TracebackShown == uncaught # NoException

\* C12: every error that ends a run of main() (argument error, authentication
\* failure, listing failure, repository not found, failed deletion call, unknown
\* always_keep or verbosity value in the configuration) produces one diagnostic
\* line, and a traceback reaches the user only at verbosity DEBUG.
C12_OneLineAndTracebackOnlyAtDebug ==
    (Exited /\ ListedError) =>
        /\ OneDiagnostic
        /\ TracebackShown => (args.bound /\ args.verbosity_level = "DEBUG")

----------------------------------------------------------------------------
(* C13 *)

\* C13: for every verbosity level the command line or the configuration file can
\* select, main() with otherwise valid arguments completes the logging setup and
\* calls handle_clean_artifacts: no level ends the run before the cleanup starts.
C13_EveryVerbosityReachesCleanup ==
    [][( /\ main_pc = "parsed"
         /\ ~args.print_version
         /\ ~args.write_default_config ) =>
            /\ main_pc' = "clean"
            /\ pc' = "call"
      ]_vars

====
